---- MODULE Spec2Model ----
(***************************************************************************)
(* Batch accumulation and chunked upload pipeline of src/main.py:          *)
(* the /submit handler, the upload_lock gate, split_file and upload_batch. *)
(*                                                                         *)
(* Scheduling model: one asyncio event loop.  A coroutine runs without     *)
(* interruption from one suspension point (an await that really suspends)  *)
(* to the next, so every action below is the code between two suspension   *)
(* points.  The store (supabase) calls are blocking calls, they do not     *)
(* suspend.  An uncontended asyncio.Lock is acquired without suspending.   *)
(*                                                                         *)
(* File operations that aiofiles hands to its worker thread take effect   *)
(* in one step, at the await that issues them; f.write puts the bytes in   *)
(* the file (recordings are larger than the writer's buffer).              *)
(*                                                                         *)
(* Bytes: files are sequences of small integers.  Sizes are measured in   *)
(* sequence elements; the two size constants are scaled accordingly.       *)
(***************************************************************************)
EXTENDS Integers, Sequences, FiniteSets, TLC

\* ---------------------------------------------------------------- bounds
MaxTasks == 2      \* distinct task identifiers a client can submit
MaxReq   == 2      \* /submit requests over a run
MaxPromo == 2      \* upload_batch tasks created over a run
MaxTime  == 2      \* distinct one-second timestamps the clock shows
MaxLen   == 4      \* longest source handed to split_file on its own
MaxChunk == 3      \* largest ceiling handed to split_file on its own

\* ------------------------------------------------------ program constants
BATCH_SIZE_BYTES == 2      \* trigger threshold (500 MiB in the source)
CHUNK_SIZE_BYTES == 3      \* chunk ceiling     ( 45 MiB in the source)

ALLOWED == {"audio/wav", "audio/wave", "audio/x-wav", "application/octet-stream"}

\* ------------------------------------------------------------ input sets
Tasks        == 1..MaxTasks
Reqs         == 1..MaxReq
Promos       == 1..MaxPromo
ContentTypes == ALLOWED \cup {"audio/mpeg"}
Audios       == {<<1>>, <<2, 2>>}
Transcripts  == {5}

None == 0                   \* Python None (message ids start at 1)
META == MaxTasks + 1        \* the name metadata.csv; *.wav names are task ids
EOCD == 9                   \* the archive's trailing directory record

VARIABLES
    scratch,      \* TEMP_DIR: name -> bytes, for the files present
    tmp,          \* /tmp: <<timestamp, 0>> the zip, <<timestamp, k>> part k
    recordings,   \* store table: task_id -> transcripts of its rows
    tasks,        \* store table: task_id -> status (the rows /get_task made)
    batches,      \* store table: the BatchRecords, in insertion order
    channel,      \* messages the transfer channel has accepted, in order
    req,          \* the /submit coroutines
    ub,           \* the upload_batch tasks
    upload_lock,  \* asyncio.Lock: TRUE when held
    now,          \* the wall clock, in seconds
    ran,          \* per scheduled task: the coroutines run since create_task
    sf            \* a stand-alone split_file call (src, chunk_size, result)

vars == <<scratch, tmp, recordings, tasks, batches, channel, req, ub,
          upload_lock, now, ran, sf>>

\* ------------------------------------------------------------- helpers
Put(f, k, v) == [x \in (DOMAIN f) \cup {k} |-> IF x = k THEN v ELSE f[x]]

Drop(f, K) == [x \in (DOMAIN f) \ K |-> f[x]]

RECURSIVE SumLen(_, _)
SumLen(f, S) ==
    IF S = {} THEN 0
    ELSE LET x == CHOOSE y \in S : TRUE IN Len(f[x]) + SumLen(f, S \ {x})

RECURSIVE Concat(_)
Concat(ss) == IF ss = <<>> THEN <<>> ELSE Head(ss) \o Concat(Tail(ss))

Ceil(a, b) == (a + b - 1) \div b

\* get_batch_size(): sum of the sizes of all files under TEMP_DIR
get_batch_size(dir) == SumLen(dir, DOMAIN dir)

\* mutant: the read takes one byte more than chunk_size
Read_overreads(data, pos, chunk_size) ==
    SubSeq(data, pos + 1, IF pos + chunk_size + 1 < Len(data) THEN pos + chunk_size + 1 ELSE Len(data))

\* f.read(chunk_size) at offset pos
Read(data, pos, chunk_size) ==
    SubSeq(data, pos + 1, IF pos + chunk_size < Len(data) THEN pos + chunk_size ELSE Len(data))

\* mutant: a read shorter than chunk_size ends the loop without a part
RECURSIVE SplitLoop_dropsShortTail(_, _, _, _)
SplitLoop_dropsShortTail(data, chunk_size, pos, parts) ==
    LET d == Read(data, pos, chunk_size)
    IN  IF Len(d) < chunk_size THEN parts
        ELSE SplitLoop_dropsShortTail(data, chunk_size, pos + Len(d), Append(parts, d))

\* the while loop of split_file, from read offset pos with the parts so far
RECURSIVE SplitLoop(_, _, _, _)
SplitLoop(data, chunk_size, pos, parts) ==
    LET d == Read(data, pos, chunk_size)
    IN  IF d = <<>> THEN parts
        ELSE SplitLoop(data, chunk_size, pos + Len(d), Append(parts, d))

\* split_file(src, chunk_size): the contents of part001, part002, ...
split_file(data, chunk_size) == SplitLoop(data, chunk_size, 0, <<>>)

\* sorted(TEMP_DIR.glob("*.wav"))
Wavs(dir) == (DOMAIN dir) \cap Tasks

\* the store lookup .select("transcript").eq("task_id", t): "" when no row
Transcript(t) == IF recordings[t] = <<>> THEN None ELSE recordings[t][1]

\* rows of metadata.csv, in sorted filename order
RECURSIVE RowsFrom(_, _)
RowsFrom(dir, t) ==
    IF t > MaxTasks THEN <<>>
    ELSE (IF t \in Wavs(dir) THEN << <<t, Transcript(t)>> >> ELSE <<>>)
         \o RowsFrom(dir, t + 1)

Rows(dir) == RowsFrom(dir, 1)

\* metadata.csv: the header line, then one line per row
MetaBytes(rows) == <<0>> \o Concat(rows)

\* ZIP_STORED archive of sorted(TEMP_DIR.iterdir()): per entry its name and
\* its bytes unchanged, then the end record
RECURSIVE ZipFrom(_, _)
ZipFrom(dir, n) ==
    IF n > META THEN <<EOCD>>
    ELSE (IF n \in DOMAIN dir THEN <<n>> \o dir[n] ELSE <<>>) \o ZipFrom(dir, n + 1)

ZipBytes(dir) == ZipFrom(dir, 1)

\* the paths split_file and upload_batch use for one timestamp
ZipPath(ts)     == <<ts, 0>>
PartPath(ts, k) == <<ts, k>>
PartPaths(ts, n) == {PartPath(ts, k) : k \in 1..n}

\* a write of d at offset 0 into a file holding e
Overlay(d, e) == IF Len(d) >= Len(e) THEN d ELSE d \o SubSeq(e, Len(d) + 1, Len(e))

IdleReq == [pc |-> "idle", task_id |-> 0, transcript |-> 0, audio |-> <<>>,
            linked |-> FALSE]

NoUb == [pc |-> "none", timestamp |-> 0, rows |-> <<>>, total_parts |-> 0,
         i |-> 0, first_message_id |-> None, doc |-> <<>>, zip |-> <<>>,
         wavs |-> <<>>, creator |-> 0, log |-> <<>>, gen |-> 0]

Created == {p \in Promos : ub[p].pc # "none"}
InFlight == {p \in Promos : ub[p].pc \in {"scheduled", "uploading"}}

Init ==
    /\ scratch = <<>>
    /\ tmp = <<>>
    /\ recordings = [t \in Tasks |-> <<>>]
    /\ tasks = [t \in Tasks |-> "pending"]
    /\ batches = <<>>
    /\ channel = <<>>
    /\ req = [r \in Reqs |-> IdleReq]
    /\ ub = [p \in Promos |-> NoUb]
    /\ upload_lock = FALSE
    /\ now = 1
    /\ ran = [p \in Promos |-> {}]
    /\ sf = [pc |-> "off", src |-> <<>>, chunk_size |-> 1, parts |-> <<>>]

\* ------------------------------------------------------- the event loop
\* create_task puts the new task's first step at the end of the loop's ready
\* queue.  Before that step runs, a coroutine that was already waiting can
\* run once (its wake-up was queued earlier); what it waits for next is
\* queued behind the new task.  Tasks take their first step in the order of
\* their creation.
ReqCo(r)   == r
PromoCo(p) == MaxReq + p

Step(c) ==
    /\ \A p \in Promos : ub[p].pc = "scheduled" => c \notin ran[p]
    /\ ran' = [p \in Promos |->
                 IF ub'[p].pc # "scheduled" THEN {}
                 ELSE IF ub[p].pc = "scheduled" THEN ran[p] \cup {c} ELSE {}]

FirstStep(p) ==
    /\ ub[p].pc = "scheduled"
    /\ \A q \in Promos : q < p => ub[q].pc # "scheduled"

\* ------------------------------------------------------------ POST /submit
\* requests take the coroutine slots in order
NextReq(r) == req[r].pc = "idle" /\ \A q \in Reqs : q < r => req[q].pc # "idle"

\* mutant: the content type is looked at after the destination is opened
SubmitReject_afterOpen(r, task_id, content_type) ==
    /\ NextReq(r)
    /\ content_type \notin ALLOWED
    /\ scratch' = Put(scratch, task_id, <<>>)
    /\ req' = [req EXCEPT ![r] = [IdleReq EXCEPT !.pc = "rejected"]]
    /\ UNCHANGED <<tmp, recordings, tasks, batches, channel, ub,
                   upload_lock, now, sf>>
    /\ Step(ReqCo(r))

\* content type outside ALLOWED: HTTPException(400) before anything else
SubmitReject(r, task_id, content_type) ==
    /\ NextReq(r)
    /\ content_type \notin ALLOWED
    /\ req' = [req EXCEPT ![r] = [IdleReq EXCEPT !.pc = "rejected"]]
    /\ UNCHANGED <<scratch, tmp, recordings, tasks, batches, channel, ub,
                   upload_lock, now, sf>>
    /\ Step(ReqCo(r))

\* aiofiles.open(dest, "wb"): the file is created, or truncated when present
SubmitOpen(r, task_id, transcript, audio, content_type) ==
    /\ NextReq(r)
    /\ content_type \in ALLOWED
    /\ scratch' = Put(scratch, task_id, <<>>)
    /\ req' = [req EXCEPT ![r] = [pc |-> "open", task_id |-> task_id,
                                  transcript |-> transcript, audio |-> audio,
                                  linked |-> TRUE]]
    /\ UNCHANGED <<tmp, recordings, tasks, batches, channel, ub,
                   upload_lock, now, sf>>
    /\ Step(ReqCo(r))

\* f.write(await audio.read()): the bytes go to the opened file at offset 0;
\* a file removed from the directory since the open takes them with it
SubmitWrite(r) ==
    /\ req[r].pc = "open"
    /\ req' = [req EXCEPT ![r].pc = "written"]
    /\ scratch' = IF req[r].linked
                  THEN [scratch EXCEPT ![req[r].task_id] = Overlay(req[r].audio, @)]
                  ELSE scratch
    /\ UNCHANGED <<tmp, recordings, tasks, batches, channel, ub,
                   upload_lock, now, sf>>
    /\ Step(ReqCo(r))

\* the first upload_batch slot not yet used
FreePromo == CHOOSE p \in Promos : ub[p].pc = "none" /\ \A q \in Promos : q < p => ub[q].pc # "none"

\* the insert into recordings raises: the handler ends with that exception
\* (a 500 response), the file stays, no row is written, the gate is not reached
SubmitStoreFails(r) ==
    /\ req[r].pc = "written"
    /\ req' = [req EXCEPT ![r] = [IdleReq EXCEPT !.pc = "error"]]
    /\ UNCHANGED <<scratch, tmp, recordings, tasks, batches, channel, ub,
                   upload_lock, now, sf>>
    /\ Step(ReqCo(r))

\* mutant: the promotion is awaited under the lock instead of being handed off
SubmitFinish_awaitsUpload(r) ==
    /\ req[r].pc = "written"
    /\ recordings' = [recordings EXCEPT ![req[r].task_id] = Append(@, req[r].transcript)]
    /\ tasks' = [tasks EXCEPT ![req[r].task_id] = "recorded"]
    /\ IF get_batch_size(scratch) >= BATCH_SIZE_BYTES
       THEN /\ ~upload_lock
            /\ \E p \in Promos : ub[p].pc = "none"
            /\ ub' = [ub EXCEPT ![FreePromo] =
                         [NoUb EXCEPT !.pc = "scheduled", !.creator = r]]
            /\ upload_lock' = TRUE
            /\ req' = [req EXCEPT ![r].pc = "awaiting"]
       ELSE /\ ub' = ub
            /\ upload_lock' = upload_lock
            /\ req' = [req EXCEPT ![r] = [IdleReq EXCEPT !.pc = "done"]]
    /\ UNCHANGED <<scratch, tmp, batches, channel, now, sf>>
    /\ Step(ReqCo(r))

\* after the file is closed: the two store writes, then the gate, then the
\* response.  The gate is the unlocked check, the lock, the re-check and
\* create_task; nothing in it suspends, so the lock is free again at return.
SubmitFinish(r) ==
    /\ req[r].pc = "written"
    /\ recordings' = [recordings EXCEPT ![req[r].task_id] = Append(@, req[r].transcript)]
    /\ tasks' = [tasks EXCEPT ![req[r].task_id] = "recorded"]
    /\ LET batch_bytes == get_batch_size(scratch)
       IN  IF batch_bytes >= BATCH_SIZE_BYTES
           THEN /\ ~upload_lock
                /\ IF get_batch_size(scratch) >= BATCH_SIZE_BYTES
                   THEN /\ \E p \in Promos : ub[p].pc = "none"
                        /\ ub' = [ub EXCEPT ![FreePromo] =
                                     [NoUb EXCEPT !.pc = "scheduled", !.creator = r]]
                   ELSE ub' = ub
           ELSE ub' = ub
    /\ upload_lock' = FALSE
    /\ req' = [req EXCEPT ![r] = [IdleReq EXCEPT !.pc = "done"]]
    /\ UNCHANGED <<scratch, tmp, batches, channel, now, sf>>
    /\ Step(ReqCo(r))

\* ------------------------------------------------------------ upload_batch
\* mutant: the count takes in the manifest file as well
RowCount_countsManifest(rows) == Len(rows) + 1

\* len(rows) as the BatchRecord and the caption count it
RowCount(rows) == Len(rows)

\* steps 5 and 6: the BatchRecord, then the archive and the whole of TEMP_DIR
\* are removed and TEMP_DIR is made again; a file a submit still has open
\* is no longer in the directory
Committed(p, u, t) ==
    /\ batches' = Append(batches, [batch_name |-> u.timestamp,
                                   file_count |-> RowCount(u.rows),
                                   size |-> Len(u.zip),
                                   parts |-> u.total_parts,
                                   status |-> "uploaded",
                                   promo |-> p])
    /\ tmp' = Drop(t, {ZipPath(u.timestamp)})
    /\ scratch' = <<>>
    /\ req' = [r \in Reqs |-> IF req[r].pc = "open"
                              THEN [req[r] EXCEPT !.linked = FALSE] ELSE req[r]]
    /\ ub' = [ub EXCEPT ![p] = [u EXCEPT !.pc = "committed"]]

\* mutant: the except branch clears TEMP_DIR as the success path does
Aborted_clearsScratch(p, u, t) ==
    /\ tmp' = Drop(t, PartPaths(u.timestamp, u.total_parts) \cup {ZipPath(u.timestamp)})
    /\ ub' = [ub EXCEPT ![p] = [u EXCEPT !.pc = "aborted"]]
    /\ scratch' = <<>>
    /\ UNCHANGED <<batches, req>>

\* mutant: the except branch removes the parts and leaves the archive
Aborted_keepsArchive(p, u, t) ==
    /\ tmp' = Drop(t, PartPaths(u.timestamp, u.total_parts))
    /\ ub' = [ub EXCEPT ![p] = [u EXCEPT !.pc = "aborted"]]
    /\ UNCHANGED <<scratch, batches, req>>

\* the except branch: every part path and the archive are unlinked
\* (missing_ok), nothing else is touched, the task returns
Aborted(p, u, t) ==
    /\ tmp' = Drop(t, PartPaths(u.timestamp, u.total_parts) \cup {ZipPath(u.timestamp)})
    /\ ub' = [ub EXCEPT ![p] = [u EXCEPT !.pc = "aborted"]]
    /\ UNCHANGED <<scratch, batches, req>>

\* the parts of one archive, written under their paths
WriteParts(t, ts, parts) ==
    [x \in (DOMAIN t) \cup PartPaths(ts, Len(parts)) |->
        IF x \in PartPaths(ts, Len(parts)) THEN parts[x[2]] ELSE t[x]]

\* mutant: each part replies to the part before it
ReplyTo_previous(i, first_message_id, previous_message_id) ==
    IF i > 1 THEN previous_message_id ELSE None

\* reply_to_message_id of the transfer of part i
ReplyTo(i, first_message_id, previous_message_id) ==
    IF i > 1 THEN first_message_id ELSE None

\* enumerate(parts, 1): the index after i
NextIndex(i) == i + 1

\* the task's first run, up to the first send_document: manifest, archive,
\* split, and the transfer of part 1 is started
upload_batch_start(p) ==
    /\ FirstStep(p)
    /\ LET ts    == now
           rows  == Rows(scratch)
           dir1  == Put(scratch, META, MetaBytes(rows))
           zip   == ZipBytes(dir1)
           parts == split_file(zip, CHUNK_SIZE_BYTES)
           tmp1  == WriteParts(Put(tmp, ZipPath(ts), zip), ts, parts)
           u     == [ub[p] EXCEPT !.timestamp = ts, !.rows = rows, !.zip = zip,
                                  !.total_parts = Len(parts),
                                  !.wavs = [t \in Wavs(scratch) |-> scratch[t]],
                                  !.gen = Len(batches)]
       IN  IF parts = <<>>
           THEN /\ Committed(p, u, tmp1)
                /\ channel' = channel
           ELSE /\ scratch' = dir1
                /\ tmp' = tmp1
                /\ ub' = [ub EXCEPT ![p] = [u EXCEPT !.pc = "uploading", !.i = 1,
                                                    !.doc = parts[1],
                                                    !.log = << <<1, "start">> >>]]
                /\ UNCHANGED <<batches, req, channel>>
    /\ UNCHANGED <<recordings, tasks, upload_lock, now, sf>>
    /\ Step(PromoCo(p))

\* an exception in steps 1 to 3 leaves the task with that exception:
\* "select" the store lookup of the first recording raises;
\* "zip" the archive cannot be created, the manifest is already written;
\* "split" the first part cannot be written, manifest and archive are written
ArchiveStages == {"select", "zip", "split"}

upload_batch_archive_fails(p, stage) ==
    /\ FirstStep(p)
    /\ stage = "select" => Wavs(scratch) # {}
    /\ LET ts   == now
           rows == Rows(scratch)
           dir1 == Put(scratch, META, MetaBytes(rows))
           zip  == ZipBytes(dir1)
       IN  /\ scratch' = IF stage = "select" THEN scratch ELSE dir1
           /\ tmp' = IF stage = "split" THEN Put(tmp, ZipPath(ts), zip) ELSE tmp
           /\ ub' = [ub EXCEPT ![p] = [@ EXCEPT !.pc = "failed", !.timestamp = ts,
                                               !.wavs = [t \in Wavs(scratch) |-> scratch[t]]]]
    /\ UNCHANGED <<recordings, tasks, batches, channel, req, upload_lock, now, sf>>
    /\ Step(PromoCo(p))

\* message id of the last message this task got accepted, None before any
PreviousId(p) ==
    LET mine == {m \in 1..Len(channel) : channel[m].promo = p}
    IN  IF mine = {} THEN None ELSE CHOOSE m \in mine : \A k \in mine : k <= m

\* send_document of part i returned a message: the message is recorded,
\* first_message_id is set on part 1, the part is unlinked; then either the
\* next part is opened and its transfer started, or, after the last part,
\* the batch is recorded and TEMP_DIR cleared.  A part file that is gone
\* (unlink, stat or open raises) takes the except branch.
Sent(p, ledger_ok) ==
    /\ ub[p].pc = "uploading"
    /\ LET u0    == ub[p]
           i     == u0.i
           msg   == [message_id |-> Len(channel) + 1,
                     reply_to_message_id |-> ReplyTo(i, u0.first_message_id, PreviousId(p)),
                     document |-> u0.doc, promo |-> p, part |-> i]
           u     == [u0 EXCEPT !.first_message_id = IF i = 1 THEN msg.message_id ELSE @,
                               !.log = Append(@, <<i, "ok">>)]
           part  == PartPath(u.timestamp, i)
           tmp1  == Drop(tmp, {part})
           j     == NextIndex(i)
           next  == PartPath(u.timestamp, j)
       IN  /\ channel' = Append(channel, msg)
           /\ IF part \notin DOMAIN tmp
              THEN ledger_ok /\ Aborted(p, u, tmp)
              ELSE IF j <= u.total_parts
              THEN /\ ledger_ok
                   /\ IF next \notin DOMAIN tmp1
                      THEN Aborted(p, u, tmp1)
                      ELSE /\ ub' = [ub EXCEPT ![p] = [u EXCEPT !.i = j, !.doc = tmp1[next],
                                                               !.log = Append(@, <<j, "start">>)]]
                           /\ tmp' = tmp1
                           /\ UNCHANGED <<scratch, batches, req>>
              ELSE IF ledger_ok
              THEN Committed(p, u, tmp1)
              ELSE /\ ub' = [ub EXCEPT ![p] = [u EXCEPT !.pc = "failed"]]
                   /\ tmp' = tmp1
                   /\ UNCHANGED <<scratch, batches, req>>
    /\ UNCHANGED <<recordings, tasks, upload_lock, now, sf>>
    /\ Step(PromoCo(p))

\* send_document of part i returned
upload_batch_sent(p) == Sent(p, TRUE)

\* send_document of the last part returned and the insert into batches raises
upload_batch_ledger_fails(p) ==
    /\ ub[p].i = ub[p].total_parts
    /\ PartPath(ub[p].timestamp, ub[p].i) \in DOMAIN tmp
    /\ Sent(p, FALSE)

\* mutant: the failure of one part is caught inside the loop, which goes on
upload_batch_send_fails_continues(p) ==
    /\ ub[p].pc = "uploading"
    /\ ub[p].i < ub[p].total_parts
    /\ PartPath(ub[p].timestamp, ub[p].i + 1) \in DOMAIN tmp
    /\ ub' = [ub EXCEPT ![p] = [@ EXCEPT !.i = @ + 1,
                                         !.doc = tmp[PartPath(ub[p].timestamp, ub[p].i + 1)],
                                         !.log = @ \o << <<ub[p].i, "fail">>, <<ub[p].i + 1, "start">> >>]]
    /\ UNCHANGED <<scratch, tmp, batches, req, recordings, tasks, channel,
                   upload_lock, now, sf>>
    /\ Step(PromoCo(p))

\* send_document of part i raises
upload_batch_send_fails(p) ==
    /\ ub[p].pc = "uploading"
    /\ Aborted(p, [ub[p] EXCEPT !.log = Append(@, <<ub[p].i, "fail">>)], tmp)
    /\ UNCHANGED <<recordings, tasks, channel, upload_lock, now, sf>>
    /\ Step(PromoCo(p))

\* the wall clock moves to the next second
Tick ==
    /\ now < MaxTime
    /\ now' = now + 1
    /\ UNCHANGED <<scratch, tmp, recordings, tasks, batches, channel, req, ub,
                   upload_lock, ran, sf>>

Next ==
    \/ \E r \in Reqs, t \in Tasks, c \in ContentTypes : SubmitReject(r, t, c)
    \/ \E r \in Reqs, t \in Tasks, tr \in Transcripts, a \in Audios, c \in ContentTypes :
          SubmitOpen(r, t, tr, a, c)
    \/ \E r \in Reqs : SubmitWrite(r)
    \/ \E r \in Reqs : SubmitFinish(r)
    \/ \E r \in Reqs : SubmitStoreFails(r)
    \/ \E p \in Promos : upload_batch_start(p)
    \/ \E p \in Promos, st \in ArchiveStages : upload_batch_archive_fails(p, st)
    \/ \E p \in Promos : upload_batch_sent(p)
    \/ \E p \in Promos : upload_batch_ledger_fails(p)
    \/ \E p \in Promos : upload_batch_send_fails(p)
    \/ Tick

Spec == Init /\ [][Next]_vars

\* ------------------------------------------------- split_file on its own
Bytes == {0, 1}

Sources == UNION {[1..n -> Bytes] : n \in 0..MaxLen}

InitSplit ==
    /\ scratch = <<>>
    /\ tmp = <<>>
    /\ recordings = [t \in Tasks |-> <<>>]
    /\ tasks = [t \in Tasks |-> "pending"]
    /\ batches = <<>>
    /\ channel = <<>>
    /\ req = [r \in Reqs |-> IdleReq]
    /\ ub = [p \in Promos |-> NoUb]
    /\ upload_lock = FALSE
    /\ now = 1
    /\ ran = [p \in Promos |-> {}]
    /\ \E src \in Sources, c \in 1..MaxChunk :
          sf = [pc |-> "call", src |-> src, chunk_size |-> c, parts |-> <<>>]

SplitCall ==
    /\ sf.pc = "call"
    /\ sf' = [sf EXCEPT !.pc = "returned", !.parts = split_file(sf.src, sf.chunk_size)]
    /\ UNCHANGED <<scratch, tmp, recordings, tasks, batches, channel, req, ub,
                   upload_lock, now, ran>>

NextSplit == SplitCall

SpecSplit == InitSplit /\ [][NextSplit]_vars

\* ==================================================================== claims
MessagesOf(p) == {m \in 1..Len(channel) : channel[m].promo = p}

PartsSent(p) == {channel[m].part : m \in MessagesOf(p)}

RecordsOf(bs, p) == {k \in 1..Len(bs) : bs[k].promo = p}

\* C1: at most one promotion (a created upload_batch task that has not ended)
\* is in flight in any state
C1_AtMostOnePromotionInFlight == Cardinality(InFlight) <= 1

\* C2: when submissions have passed the gate, each having read a total at or
\* above the threshold, and no upload_batch task has run yet, exactly one
\* task has been created
C2_ExactlyOnePromotionStarted ==
    (Created # {} /\ \A p \in Created : ub[p].pc = "scheduled")
        => Cardinality(Created) = 1

\* C3: the step that ends an attempt on a failed transfer leaves no
\* BatchRecord of the attempt, every recording that was in the scratch
\* directory when the attempt started still in it, and none of the attempt's
\* chunk files on disk
C3_AllOrNothing ==
    [][\A p \in Promos :
          (ub[p].pc = "uploading" /\ ub'[p].pc = "aborted"
             /\ ub'[p].log[Len(ub'[p].log)][2] = "fail")
             => /\ RecordsOf(batches', p) = {}
                /\ DOMAIN ub'[p].wavs \subseteq DOMAIN scratch'
                /\ PartPaths(ub'[p].timestamp, ub'[p].total_parts) \cap DOMAIN tmp' = {}]_vars

\* C4: the step that commits a promotion leaves the scratch directory empty
\* and exactly one BatchRecord of the promotion, whose parts is the number of
\* chunks split_file makes of the archive and whose file_count is the number
\* of *.wav files that were in the scratch directory when it was packaged
C4_SuccessfulCommit ==
    [][\A p \in Promos :
          (ub[p].pc # "committed" /\ ub'[p].pc = "committed")
             => /\ scratch' = <<>>
                /\ Cardinality(RecordsOf(batches', p)) = 1
                /\ \A k \in RecordsOf(batches', p) :
                      /\ batches'[k].parts = Len(split_file(ub'[p].zip, CHUNK_SIZE_BYTES))
                      /\ batches'[k].file_count = Cardinality(DOMAIN ub'[p].wavs)]_vars

C4_Witness ==
    \E p \in Promos : ub[p].pc = "committed" /\ ub[p].total_parts >= 2
                      /\ DOMAIN ub[p].wavs # {}

PartsSentIn(ch, p) == {ch[m].part : m \in {k \in 1..Len(ch) : ch[k].promo = p}}

CommitStep(p) ==
    /\ ub[p].pc = "uploading"
    /\ ub'[p].pc = "committed"
    /\ PartsSentIn(channel', p) = 1..ub'[p].total_parts
    /\ batches' = Append(batches, batches'[Len(batches')])
    /\ batches'[Len(batches')].promo = p

\* C5: a step that removes a recording from the scratch directory, and a
\* step that writes a BatchRecord, is the commit of a promotion all of whose
\* parts the channel has accepted and which writes its BatchRecord in that
\* step; no other step of an attempt does either
C5_ClearedOnlyByCommit ==
    [][((\E n \in Wavs(scratch) : n \notin DOMAIN scratch') \/ batches' # batches)
          => \E p \in Promos : CommitStep(p)]_vars

C5_Witness ==
    /\ \E p \in Promos : ub[p].pc = "committed"
    /\ \E p \in Promos : ub[p].pc \in {"aborted", "failed"} /\ DOMAIN ub[p].wavs # {}

\* C6: the parts split_file returns, concatenated in index order, are the
\* source, and a non-empty source of size S gives ceil(S / C) parts
C6_ChunkRoundTrip ==
    sf.pc = "returned"
        => /\ Concat(sf.parts) = sf.src
           /\ Len(sf.src) > 0 => Len(sf.parts) = Ceil(Len(sf.src), sf.chunk_size)

C6_Witness ==
    /\ sf.pc = "returned"
    /\ Len(sf.parts) >= 2
    /\ Len(sf.parts[Len(sf.parts)]) < sf.chunk_size

\* C7: every accepted transfer of a part 1 carried no parent, and every
\* accepted transfer of a later part carried the message id of the same
\* upload's part 1
C7_ReplyThreading ==
    \A m \in 1..Len(channel) :
        IF channel[m].part = 1
        THEN channel[m].reply_to_message_id = None
        ELSE \E r \in 1..Len(channel) :
                /\ channel[r].promo = channel[m].promo
                /\ channel[r].part = 1
                /\ channel[m].reply_to_message_id = channel[r].message_id

C7_Witness ==
    \E m \in 1..Len(channel) : channel[m].part = 3 /\ channel[m].reply_to_message_id # None

\* C8: within one promotion the transfers are started in index order 1, 2,
\* ..., the transfer of a part after the first is started directly after
\* the one before it succeeded, and the channel holds the parts in order
C8_InOrder ==
    \A p \in Promos :
        LET log == ub[p].log
        IN  /\ \A k \in 1..Len(log) :
                  log[k][2] = "start"
                     => /\ log[k][1] = Cardinality({j \in 1..k : log[j][2] = "start"})
                        /\ log[k][1] > 1 => log[k - 1] = <<log[k][1] - 1, "ok">>
            /\ \A m, n \in MessagesOf(p) : m < n => channel[m].part < channel[n].part

C8_Witness ==
    \E p \in Promos : Len(ub[p].log) >= 5 /\ ub[p].log[5] = <<3, "start">>

\* C9: the submission that started a promotion has its response whenever
\* the promotion exists, and the upload lock is free in every state in which
\* a promotion is scheduled or running
C9_FireAndForget ==
    /\ \A p \in Created : req[ub[p].creator].pc = "done"
    /\ InFlight # {} => ~upload_lock

C9_Witness ==
    \E p \in Promos, r \in Reqs :
        /\ ub[p].pc = "uploading"
        /\ req[ub[p].creator].pc = "done"
        /\ req[r].pc = "written"
        /\ get_batch_size(scratch) >= BATCH_SIZE_BYTES

\* C10: the step that rejects a submission for its content type changes no
\* file, no store row, no pending total and starts no promotion
C10_RejectChangesNothing ==
    [][\A r \in Reqs :
          (req[r].pc = "idle" /\ req'[r].pc = "rejected")
             => /\ UNCHANGED <<scratch, tmp, recordings, tasks, batches, channel, ub>>
                /\ get_batch_size(scratch') = get_batch_size(scratch)]_vars

C10_Witness ==
    \E r \in Reqs : req[r].pc = "rejected" /\ Wavs(scratch) # {}

\* the last transfer this task issued raised
FailedTransfer(u) == u.log # <<>> /\ u.log[Len(u.log)][2] = "fail"

\* C11: the step in which a transfer fails ends the task as aborted with
\* none of its part files and no archive file left and the scratch directory
\* as it was, and after a failed transfer the task starts no further transfer
C11_FailureAborts ==
    [][\A p \in Promos :
          /\ (ub[p].pc = "uploading" /\ FailedTransfer(ub'[p]))
                => /\ ub'[p].pc = "aborted"
                   /\ (PartPaths(ub'[p].timestamp, ub'[p].total_parts)
                         \cup {ZipPath(ub'[p].timestamp)}) \cap DOMAIN tmp' = {}
                   /\ scratch' = scratch
          /\ FailedTransfer(ub[p]) => ub'[p].log = ub[p].log]_vars

C11_Witness ==
    \E p \in Promos :
        /\ ub[p].pc = "aborted"
        /\ FailedTransfer(ub[p])
        /\ ub[p].i >= 2 /\ ub[p].i < ub[p].total_parts
        /\ Wavs(scratch) # {}

\* C12: while a promotion uploads part i, no file is on disk under the path
\* of any of its parts before i
C12_PartsDeletedAsSent ==
    \A p \in Promos :
        ub[p].pc = "uploading"
            => \A k \in 1..(ub[p].i - 1) : PartPath(ub[p].timestamp, k) \notin DOMAIN tmp

Min(a, b) == IF a < b THEN a ELSE b

\* C13: every part is at most the ceiling long, every part but the last is
\* exactly the ceiling long, part k holds the k-th ceiling-sized stretch of
\* the source in read order, and an empty source gives no part
C13_PartSizes ==
    sf.pc = "returned"
        => LET n == Len(sf.parts)
               c == sf.chunk_size
           IN  /\ \A k \in 1..n :
                     /\ Len(sf.parts[k]) <= c
                     /\ k < n => Len(sf.parts[k]) = c
                     /\ sf.parts[k] = SubSeq(sf.src, (k - 1) * c + 1, Min(k * c, Len(sf.src)))
               /\ Len(sf.src) = 0 => n = 0

C13_Witness ==
    /\ sf.pc = "returned"
    /\ Len(sf.parts) = 2
    /\ Len(sf.parts[1]) = sf.chunk_size
    /\ Len(sf.parts[2]) < sf.chunk_size

Ended(u) == u.pc \in {"committed", "aborted", "failed"}

OwnPaths(u) == PartPaths(u.timestamp, u.total_parts) \cup {ZipPath(u.timestamp)}

\* C14: the step that ends an upload_batch task ends it either with its
\* BatchRecord written and the scratch directory cleared, or with no
\* BatchRecord and neither its archive nor any of its chunk files on disk
C14_EndsCommittedOrAborted ==
    [][\A p \in Promos :
          (~Ended(ub[p]) /\ Ended(ub'[p]))
             => \/ RecordsOf(batches', p) # {} /\ scratch' = <<>>
                \/ RecordsOf(batches', p) = {} /\ OwnPaths(ub'[p]) \cap DOMAIN tmp' = {}]_vars

\* C15: an aborted task does nothing more; when a task aborts, the
\* recordings it packaged are in the scratch directory; a submission that
\* then reads a total at or above the threshold creates a new task; and a
\* task that packages after the abort, no batch having been committed,
\* packages the aborted task's recordings unchanged
C15_RetryByNextSubmission ==
    [][\A p \in Promos :
          /\ ub[p].pc = "aborted" => ub'[p] = ub[p]
          /\ (ub[p].pc = "uploading" /\ ub'[p].pc = "aborted")
                => DOMAIN ub'[p].wavs \subseteq DOMAIN scratch'
          /\ ub[p].pc = "aborted"
                => \A r \in Reqs :
                      (req[r].pc = "written" /\ req'[r].pc = "done"
                          /\ get_batch_size(scratch) >= BATCH_SIZE_BYTES)
                         => \E q \in Promos : ub[q].pc = "none" /\ ub'[q].pc = "scheduled"
          /\ (ub[p].pc = "aborted" /\ batches = <<>>)
                => \A q \in Promos :
                      (ub[q].pc = "scheduled" /\ ub'[q].pc = "uploading")
                         => \A t \in DOMAIN ub[p].wavs :
                               /\ t \in DOMAIN ub'[q].wavs
                               /\ ub'[q].wavs[t] = ub[p].wavs[t]]_vars

\* C16: when a task packages the scratch directory, no recording it
\* packages is a file a submit has opened and not yet written, and the
\* manifest rows name exactly the packaged *.wav files
C16_ArchiveIsSnapshot ==
    [][\A p \in Promos :
          (ub[p].pc = "scheduled" /\ ub'[p].pc = "uploading")
             => /\ \A r \in Reqs :
                      ~(req[r].pc = "open" /\ req[r].linked
                          /\ req[r].task_id \in DOMAIN ub'[p].wavs)
                /\ {ub'[p].rows[k][1] : k \in 1..Len(ub'[p].rows)} = DOMAIN ub'[p].wavs]_vars

\* C17: the bytes of a recording that an accepted submission wrote do not
\* change for as long as the file is in the scratch directory
C17_NeverMutated ==
    [][\A t \in Wavs(scratch) :
          (scratch[t] # <<>> /\ recordings[t] # <<>>)
             => (t \notin DOMAIN scratch' \/ scratch'[t] = scratch[t])]_vars

\* C18: every task that has packaged the scratch directory found at least
\* one recording in it, and no BatchRecord has file_count 0
C18_NeverEmpty ==
    /\ \A p \in Promos :
          ub[p].pc \in {"uploading", "committed", "aborted"} => ub[p].rows # <<>>
    /\ \A k \in 1..Len(batches) : batches[k].file_count > 0

InCommittedArchive(ubs, t, bytes) ==
    \E q \in Promos :
        ubs[q].pc = "committed" /\ t \in DOMAIN ubs[q].wavs /\ ubs[q].wavs[t] = bytes

\* C19: the commit of a promotion removes no recording of an accepted
\* submission whose bytes are not in the archive of a committed batch, and
\* when a submission is accepted its recording is in the scratch directory
\* or in the archive of a committed batch
C19_NoRecordingLost ==
    [][/\ \A p \in Promos :
             (ub[p].pc = "uploading" /\ ub'[p].pc = "committed")
                => \A t \in Wavs(scratch) :
                      recordings[t] # <<>> => InCommittedArchive(ub', t, scratch[t])
       /\ \A r \in Reqs :
             (req[r].pc = "written" /\ req'[r].pc = "done")
                => \/ req[r].task_id \in DOMAIN scratch'
                   \/ InCommittedArchive(ub', req[r].task_id, req[r].audio)]_vars

FullyUploaded(p) == ub[p].total_parts > 0 /\ PartsSent(p) = 1..ub[p].total_parts

\* two tasks packaged the same recording file: they packaged the scratch
\* directory between the same two clearings and both archives hold the name
SameRecording(p, q) ==
    /\ p # q
    /\ ub[p].gen = ub[q].gen
    /\ DOMAIN ub[p].wavs \cap DOMAIN ub[q].wavs # {}

\* C20: no recording file is in the archives of two committed batches, and
\* no recording file is in two archives that were both uploaded in full
C20_ExactlyOnce ==
    \A p, q \in Promos :
        SameRecording(p, q)
            => /\ ~(ub[p].pc = "committed" /\ ub[q].pc = "committed")
               /\ ~(FullyUploaded(p) /\ FullyUploaded(q))

====
